---- MODULE Spec2Model ----
(***************************************************************************)
(* Model of the add_border preprocessing tool of deeplocalizer             *)
(* (source/tagger/preprocess.cpp): main, run, processImage, the three      *)
(* stage functions, addWb and writeOutputPathfile.                         *)
(*                                                                         *)
(* A path is a sequence of one-character strings.  A cv::Mat is a record   *)
(* [rows, cols, data, stages]: data holds the samples, stages is a history *)
(* of the stage functions that were applied to the buffer.                 *)
(***************************************************************************)
EXTENDS Integers, Sequences, FiniteSets, TLC

VARIABLES
    pc,            \* position of the process: "main", "run", "loop", "returned", "exit"
    vm,            \* the parsed command line (po::variables_map)
    image_descs,   \* ImageDesc::fromPathFile(pathfile): sequence of filenames
    args,          \* the arguments main passes to run
    i,             \* loop index of run
    output_paths,  \* std::vector<std::string> output_paths of run
    dirs,          \* directories created by io::create_directories
    disk,          \* image files written: output path -> [desc, mat]
    pathfiles,     \* manifest files: path -> sequence of lines
    pathfiles0,    \* the manifest files as they were when the process started
    progress,      \* values handed to printProgress, as <<numerator, denominator>>
    cerr,          \* lines written to std::cerr
    cout,          \* messages written to std::cout
    events,        \* history of decode / process / write / manifest steps
    run_ret,       \* <<value returned by run>>, <<>> before it returns
    exit_status,   \* <<exit status of main>>, <<>> while it runs
    fn_arg,        \* argument of the pure function under check
    fn_res         \* <<its result>>, <<>> before it is applied

vars == <<pc, vm, image_descs, args, i, output_paths, dirs, disk, pathfiles, pathfiles0,
          progress, cerr, cout, events, run_ret, exit_status, fn_arg, fn_res>>


(***************************************************************************)
(* Bounds of the model.                                                    *)
(***************************************************************************)
MaxDescs == 3       \* longest descriptor list
MaxPathLen == 4     \* longest input path of the addWb specification
MaxRows == 2        \* tallest source buffer of the makeBorder specification
MaxCols == 2        \* widest source buffer of the makeBorder specification

(***************************************************************************)
(* The tag size (declared in a header of the tagger).                      *)
(***************************************************************************)
TAG_WIDTH == 4
TAG_HEIGHT == 2

None == "none"

Last(s) == s[Len(s)]

Max(a, b) == IF a >= b THEN a ELSE b
Min(a, b) == IF a <= b THEN a ELSE b

(***************************************************************************)
(* boost::filesystem::path (version 3), generic format.                    *)
(***************************************************************************)
Str_images_txt == <<"i", "m", "a", "g", "e", "s", ".", "t", "x", "t">>
Str_wb == <<"_", "w", "b">>

\* index of the last occurrence of ch in s, 0 when there is none
RFind(s, ch) ==
    LET hits == {k \in 1..Len(s) : s[k] = ch}
    IN  IF hits = {} THEN 0 ELSE CHOOSE k \in hits : \A m \in hits : m <= k

\* path::filename(): the last element of the path; "." after a trailing slash
path_filename(p) ==
    LET s == RFind(p, "/")
    IN  IF p = <<>> THEN <<>>
        ELSE IF s = Len(p) THEN <<".">>
        ELSE SubSeq(p, s + 1, Len(p))

\* path::extension(): from the last dot of filename() to its end; empty for
\* "." and "..", and when filename() has no dot
path_extension(p) ==
    LET name == path_filename(p)
        pos  == RFind(name, ".")
    IN  IF name = <<".">> \/ name = <<".", ".">> THEN <<>>
        ELSE IF pos = 0 THEN <<>>
        ELSE SubSeq(name, pos, Len(name))

\* path::replace_extension() with no argument: erase the extension
path_replace_extension(p) ==
    SubSeq(p, 1, Len(p) - Len(path_extension(p)))

\* path::operator/ : append with a separator unless one is already there
path_slash(p, q) ==
    IF q = <<>> THEN p
    ELSE IF p = <<>> THEN q
    ELSE IF Last(p) = "/" \/ q[1] = "/" THEN p \o q
    ELSE p \o <<"/">> \o q

\* addWb with the suffix appended after the extension instead of before it
addWbAfterExtension(filename) ==
    filename \o Str_wb

\* addWb (preprocess.cpp:32-38)
addWb(filename) ==
    LET extension   == path_extension(filename)
        output_path == path_replace_extension(filename)
    IN  output_path \o (Str_wb \o extension)

(***************************************************************************)
(* cv::Mat and the OpenCV calls.  Samples are kept as                      *)
(* [op |-> "px", px |-> [<<row, col>> -> value]] (rows and columns from 0);*)
(* the result of a filter of the library is kept as a term over its input. *)
(***************************************************************************)
Coords(rows, cols) == (0..(rows - 1)) \X (0..(cols - 1))

\* cv::borderInterpolate for BORDER_REPLICATE
borderInterpolate(p, len) ==
    IF p < 0 THEN 0 ELSE IF p >= len THEN len - 1 ELSE p

\* cv::copyMakeBorder with BORDER_REPLICATE | BORDER_ISOLATED on a whole
\* matrix: dst is (re)created with the size of src plus the margins, every
\* source row is extended to the left and right, then the first and last
\* extended rows are repeated above and below
copyMakeBorder(src, top, bottom, left, right) ==
    LET rows == src.rows + top + bottom
        cols == src.cols + left + right
        wide == [p \in Coords(src.rows, cols) |->
                    src.data.px[<<p[1], borderInterpolate(p[2] - left, src.cols)>>]]
    IN  [rows |-> rows, cols |-> cols,
         data |-> [op |-> "px",
                   px |-> [p \in Coords(rows, cols) |->
                              wide[<<borderInterpolate(p[1] - top, src.rows), p[2]>>]]]]

\* cv::adaptiveThreshold(mat, dst, 255, ADAPTIVE_THRESH_GAUSSIAN_C, THRESH_BINARY, 51, 0)
cvAdaptiveThreshold(mat, max_value, block_size, C) ==
    [rows |-> mat.rows, cols |-> mat.cols,
     data |-> [op |-> "adaptiveThreshold", src |-> mat.data,
               max_value |-> max_value, block_size |-> block_size, C |-> C]]

\* cvRound(num / den), den > 0: the nearest integer, a tie going to the even one
cvRound(num, den) ==
    LET q == num \div den
        r == num % den
    IN  IF 2 * r < den THEN q
        ELSE IF 2 * r > den THEN q + 1
        ELSE IF q % 2 = 0 THEN q ELSE q + 1

\* cv::saturate_cast<uchar>(num / den): rounded, then clipped to 0..255
saturate_cast_uchar(num, den) ==
    LET v == cvRound(num, den)
    IN  IF v < 0 THEN 0 ELSE IF v > 255 THEN 255 ELSE v

\* cv::addWeighted(src1, alpha, src2, beta, gamma, dst); weights in tenths:
\* dst = saturate(src1 * alpha + src2 * beta + gamma) sample by sample; kept
\* as a term when an operand is itself the term of a filter
addWeighted(src1, alpha10, src2, beta10, gamma) ==
    [rows |-> src1.rows, cols |-> src1.cols,
     data |-> IF src1.data.op = "px" /\ src2.data.op = "px"
              THEN [op |-> "px",
                    px |-> [p \in Coords(src1.rows, src1.cols) |->
                               saturate_cast_uchar(alpha10 * src1.data.px[p]
                                                   + beta10 * src2.data.px[p]
                                                   + 10 * gamma, 10)]]
              ELSE [op |-> "addWeighted", src1 |-> src1.data, alpha10 |-> alpha10,
                    src2 |-> src2.data, beta10 |-> beta10, gamma |-> gamma]]

\* cv::createCLAHE(clip_limit, tile_size)->apply(mat, mat)
claheApply(mat, clip_limit, tile_size) ==
    [rows |-> mat.rows, cols |-> mat.cols,
     data |-> [op |-> "CLAHE", src |-> mat.data,
               clip_limit |-> clip_limit, tile_size |-> tile_size]]

Stage(name, mat) == [stage |-> name, rows |-> mat.rows, cols |-> mat.cols]

WithStages(mat, stages) ==
    [rows |-> mat.rows, cols |-> mat.cols, data |-> mat.data, stages |-> stages]

\* the output selection with the weights of the source and the mask exchanged
thresholdOutputSwapped(mat, mat_threshold, use_binary_image) ==
    IF use_binary_image
    THEN mat_threshold
    ELSE addWeighted(mat, 3, mat_threshold, 7, 0)

\* the output of adaptiveTresholding for the mask mat_threshold
\* (preprocess.cpp:62-66): the mask itself, or the 0.7 / 0.3 blend
thresholdOutput(mat, mat_threshold, use_binary_image) ==
    IF use_binary_image
    THEN mat_threshold
    ELSE addWeighted(mat, 7, mat_threshold, 3, 0)

\* adaptiveTresholding (preprocess.cpp:52-67)
adaptiveTresholding(mat, use_binary_image) ==
    LET mat_threshold == cvAdaptiveThreshold(mat, 255, 51, 0)
        stages        == Append(mat.stages, Stage("adaptiveTresholding", mat))
    IN  WithStages(thresholdOutput(mat, mat_threshold, use_binary_image), stages)

\* localHistogramEq (preprocess.cpp:69-75)
localHistogramEq(mat) ==
    WithStages(claheApply(mat, 2, <<TAG_WIDTH, TAG_HEIGHT>>),
               Append(mat.stages, Stage("localHistogramEq", mat)))

\* makeBorder with the whole tag size as margin on each side (no halving)
makeBorderNoHalving(mat) ==
    WithStages(copyMakeBorder(mat, TAG_HEIGHT, TAG_HEIGHT, TAG_WIDTH, TAG_WIDTH),
               Append(mat.stages, Stage("makeBorder", mat)))

\* makeBorder with the whole margin below and to the right of the source
makeBorderOneSided(mat) ==
    WithStages(copyMakeBorder(mat, 0, 2 * (TAG_HEIGHT \div 2), 0, 2 * (TAG_WIDTH \div 2)),
               Append(mat.stages, Stage("makeBorder", mat)))

\* makeBorder (preprocess.cpp:77-85)
makeBorder(mat) ==
    WithStages(copyMakeBorder(mat, TAG_HEIGHT \div 2, TAG_HEIGHT \div 2,
                                   TAG_WIDTH \div 2, TAG_WIDTH \div 2),
               Append(mat.stages, Stage("makeBorder", mat)))

\* processImage with the threshold applied before the histogram equalization
processImageReordered(mat, use_hist_eq, use_thresholding, use_binary_image, make_border) ==
    LET m1 == IF make_border THEN makeBorder(mat) ELSE mat
        m2 == IF use_thresholding THEN adaptiveTresholding(m1, use_binary_image) ELSE m1
        m3 == IF use_hist_eq THEN localHistogramEq(m2) ELSE m2
    IN  m3

\* processImage (preprocess.cpp:86-100)
processImage(mat, use_hist_eq, use_thresholding, use_binary_image, make_border) ==
    LET m1 == IF make_border THEN makeBorder(mat) ELSE mat
        m2 == IF use_hist_eq THEN localHistogramEq(m1) ELSE m1
        m3 == IF use_thresholding THEN adaptiveTresholding(m2, use_binary_image) ELSE m2
    IN  m3

(***************************************************************************)
(* The environment of a run: the command line, the pathfile, the input     *)
(* images and the files already present.                                   *)
(***************************************************************************)
OutputDir == <<"o">>
OverridePathfile == <<"m">>

\* filenames a pathfile may list; the first two share their last element
DescPool == { <<"a", ".", "p">>, <<"d", "/", "a", ".", "p">>, <<"b">> }

RECURSIVE SeqsUpTo(_, _)
SeqsUpTo(S, n) ==
    IF n = 0 THEN {<<>>}
    ELSE LET shorter == SeqsUpTo(S, n - 1)
         IN  shorter \cup {Append(q, x) : q \in {r \in shorter : Len(r) = n - 1}, x \in S}

DescLists == SeqsUpTo(DescPool, MaxDescs)

\* Image(desc): the buffer decoded from the input file
Decode(filename) ==
    LET cols == 1 + (Len(filename) % 2)
    IN  [rows |-> 1, cols |-> cols,
         data |-> [op |-> "px",
                   px |-> [p \in Coords(1, cols) |-> (Len(filename) + p[2]) % 3]],
         stages |-> <<>>]

EmptyFn == [x \in {} |-> x]

Options ==
    [help : BOOLEAN, pathfile : BOOLEAN, output_dir : BOOLEAN,
     output_pathfile : {<<>>, <<OverridePathfile>>},   \* boost::optional<io::path>
     border : BOOLEAN, use_hist_eq : BOOLEAN, use_threshold : BOOLEAN,
     binary_image : BOOLEAN]

\* the manifest path with the override ignored
ManifestPathDefaultOnly(output_pathfile, output_dir) ==
    path_slash(output_dir, Str_images_txt)

\* output_pathfile.get_value_or(output_dir / "images.txt") (preprocess.cpp:125)
ManifestPath(output_pathfile, output_dir) ==
    IF output_pathfile # <<>> THEN output_pathfile[1]
    ELSE path_slash(output_dir, Str_images_txt)

StaleManifest == << <<"o", "l", "d">> >>

Init ==
    /\ pc = "main"
    /\ vm \in Options
    /\ image_descs = <<>>
    /\ args = None
    /\ i = 0
    /\ output_paths = <<>>
    /\ dirs = {}
    /\ disk = EmptyFn
    /\ pathfiles \in {EmptyFn,
                      [x \in {ManifestPath(vm.output_pathfile, OutputDir)} |-> StaleManifest]}
    /\ pathfiles0 = pathfiles
    /\ progress = <<>>
    /\ cerr = <<>>
    /\ cout = <<>>
    /\ events = <<>>
    /\ run_ret = <<>>
    /\ exit_status = <<>>
    /\ fn_arg = None
    /\ fn_res = <<>>

(***************************************************************************)
(* main (preprocess.cpp:130-171)                                           *)
(***************************************************************************)
\* --help: usage, return 0 (137-142)
MainHelp ==
    /\ pc = "main"
    /\ vm.help
    /\ cout' = Append(cout, "usage")
    /\ exit_status' = <<0>>
    /\ pc' = "exit"
    /\ UNCHANGED <<vm, image_descs, args, i, output_paths, dirs, disk, pathfiles,
                   progress, cerr, events, run_ret, pathfiles0, fn_arg, fn_res>>

\* the usage branch returning a failure status
MainUsageStatus1 ==
    /\ pc = "main"
    /\ ~vm.help
    /\ ~(vm.pathfile /\ vm.output_dir)
    /\ cout' = Append(Append(cout, "No pathfile or output_dir are given"), "usage")
    /\ exit_status' = <<1>>
    /\ pc' = "exit"
    /\ UNCHANGED <<vm, image_descs, args, i, output_paths, dirs, disk, pathfiles,
                   progress, cerr, events, run_ret, pathfiles0, fn_arg, fn_res>>

\* pathfile or output-dir missing: message and usage, return 0 (163-169)
MainUsage ==
    /\ pc = "main"
    /\ ~vm.help
    /\ ~(vm.pathfile /\ vm.output_dir)
    /\ cout' = Append(Append(cout, "No pathfile or output_dir are given"), "usage")
    /\ exit_status' = <<0>>
    /\ pc' = "exit"
    /\ UNCHANGED <<vm, image_descs, args, i, output_paths, dirs, disk, pathfiles,
                   progress, cerr, events, run_ret, pathfiles0, fn_arg, fn_res>>

\* the arguments of run without binary-image forcing use-threshold
RunArgsNoForce(v) ==
    [output_dir       |-> OutputDir,
     output_pathfile  |-> v.output_pathfile,
     use_hist_eq      |-> v.use_hist_eq,
     use_thresholding |-> v.use_threshold,
     use_binary_image |-> v.binary_image,
     border           |-> v.border]

\* the arguments of run built from the command line (147-160)
RunArgs(v) ==
    LET use_binary_image == v.binary_image
        use_threshold    == IF use_binary_image THEN TRUE ELSE v.use_threshold
    IN  [output_dir       |-> OutputDir,
         output_pathfile  |-> v.output_pathfile,
         use_hist_eq      |-> v.use_hist_eq,
         use_thresholding |-> use_threshold,
         use_binary_image |-> use_binary_image,
         border           |-> v.border]

\* pathfile and output-dir given: read the pathfile, call run (143-162)
MainRun ==
    /\ pc = "main"
    /\ ~vm.help
    /\ vm.pathfile /\ vm.output_dir
    /\ \E descs \in DescLists : image_descs' = descs
    /\ args' = RunArgs(vm)
    /\ pc' = "run"
    /\ UNCHANGED <<vm, i, output_paths, dirs, disk, pathfiles, progress, cerr, cout,
                   events, run_ret, exit_status, pathfiles0, fn_arg, fn_res>>

\* the value of run is dropped; main returns 0 (161-162, 170)
MainReturn ==
    /\ pc = "returned"
    /\ exit_status' = <<0>>
    /\ pc' = "exit"
    /\ UNCHANGED <<vm, image_descs, args, i, output_paths, dirs, disk, pathfiles,
                   progress, cerr, cout, events, run_ret, pathfiles0, fn_arg, fn_res>>

(***************************************************************************)
(* run (preprocess.cpp:102-128)                                            *)
(***************************************************************************)
\* the output path of a descriptor (116-117)
OutputPath(output_dir, filename) ==
    addWb(path_slash(output_dir, path_filename(filename)))

\* Image::write(path): on success the file holds the buffer, on failure no
\* file is produced
ImageWrite(files, path, file, ok) ==
    IF ok THEN [x \in {path} |-> file] @@ files ELSE files

\* the output path put in front of the list instead of at its end
emplace_front(paths, output) == <<output>> \o paths

\* output_paths.emplace_back(output.string()) (122)
emplace_back(paths, output) == Append(paths, output)

\* writeOutputPathfile (40-50): the stream is not checked, so nothing is
\* stored when the file cannot be opened
writeOutputPathfile(files, pathfile, paths, opened) ==
    IF opened THEN [x \in {pathfile} |-> paths] @@ files ELSE files

\* the start of run without the first progress report
RunStartNoProgress ==
    /\ pc = "run"
    /\ dirs' = dirs \cup {args.output_dir}
    /\ events' = Append(events, [ev |-> "create_directories", path |-> args.output_dir])
    /\ output_paths' = <<>>
    /\ i' = 0
    /\ pc' = "loop"
    /\ UNCHANGED <<vm, image_descs, args, disk, pathfiles, progress, cerr, cout, run_ret,
                   exit_status, pathfiles0, fn_arg, fn_res>>

\* create the output directory, report progress 0 (108-111)
RunStart ==
    /\ pc = "run"
    /\ dirs' = dirs \cup {args.output_dir}
    /\ progress' = Append(progress, <<0, 1>>)
    /\ events' = Append(events, [ev |-> "create_directories", path |-> args.output_dir])
    /\ output_paths' = <<>>
    /\ i' = 0
    /\ pc' = "loop"
    /\ UNCHANGED <<vm, image_descs, args, disk, pathfiles, cerr, cout, run_ret,
                   exit_status, pathfiles0, fn_arg, fn_res>>

\* one iteration of the loop without the return after a failed write
RunIterateNoAbort ==
    /\ pc = "loop"
    /\ i < Len(image_descs)
    /\ LET desc   == image_descs[i + 1]
           img    == processImage(Decode(desc), args.use_hist_eq, args.use_thresholding,
                                  args.use_binary_image, args.border)
           output == OutputPath(args.output_dir, desc)
       IN  \E ok \in BOOLEAN :
             /\ events' = events \o
                    << [ev |-> "decode", i |-> i],
                       [ev |-> "processImage", i |-> i, stages |-> img.stages],
                       [ev |-> "write", i |-> i, path |-> output, ok |-> ok] >>
             /\ disk' = ImageWrite(disk, output, [desc |-> i, mat |-> img], ok)
             /\ cerr' = IF ok THEN cerr
                        ELSE Append(cerr, [msg |-> "Fail to write image : ", path |-> output])
             /\ output_paths' = emplace_back(output_paths, output)
             /\ progress' = Append(progress, <<i + 1, Len(image_descs)>>)
             /\ i' = i + 1
             /\ UNCHANGED <<run_ret, pc>>
    /\ UNCHANGED <<vm, image_descs, args, dirs, pathfiles, cout, exit_status,
                   pathfiles0, fn_arg, fn_res>>

\* one iteration of the loop (112-124)
RunIterate ==
    /\ pc = "loop"
    /\ i < Len(image_descs)
    /\ LET desc   == image_descs[i + 1]
           img    == processImage(Decode(desc), args.use_hist_eq, args.use_thresholding,
                                  args.use_binary_image, args.border)
           output == OutputPath(args.output_dir, desc)
       IN  \E ok \in BOOLEAN :
             /\ events' = events \o
                    << [ev |-> "decode", i |-> i], [ev |-> "processImage", i |-> i, stages |-> img.stages],
                       [ev |-> "write", i |-> i, path |-> output, ok |-> ok] >>
             /\ disk' = ImageWrite(disk, output, [desc |-> i, mat |-> img], ok)
             /\ IF ~ok
                THEN /\ cerr' = Append(cerr, [msg |-> "Fail to write image : ",
                                              path |-> output])
                     /\ run_ret' = <<1>>
                     /\ pc' = "returned"
                     /\ UNCHANGED <<i, output_paths, progress>>
                ELSE /\ output_paths' = emplace_back(output_paths, output)
                     /\ progress' = Append(progress, <<i + 1, Len(image_descs)>>)
                     /\ i' = i + 1
                     /\ UNCHANGED <<cerr, run_ret, pc>>
    /\ UNCHANGED <<vm, image_descs, args, dirs, pathfiles, cout, exit_status,
                   pathfiles0, fn_arg, fn_res>>

\* the end of run writing no manifest when no path was collected
RunFinishSkipEmpty ==
    /\ pc = "loop"
    /\ i >= Len(image_descs)
    /\ LET pathfile == ManifestPath(args.output_pathfile, args.output_dir)
       IN  \E opened \in BOOLEAN :
             IF output_paths = <<>>
             THEN UNCHANGED <<pathfiles, events, cout>>
             ELSE /\ pathfiles' = writeOutputPathfile(pathfiles, pathfile, output_paths,
                                                      opened)
                  /\ events' = Append(events, [ev |-> "writeOutputPathfile",
                                               path |-> pathfile, lines |-> output_paths,
                                               opened |-> opened])
                  /\ cout' = Append(cout, [msg |-> "Add border to",
                                           count |-> Len(output_paths), path |-> pathfile])
    /\ run_ret' = <<0>>
    /\ pc' = "returned"
    /\ UNCHANGED <<vm, image_descs, args, i, output_paths, dirs, disk, progress, cerr,
                   exit_status, pathfiles0, fn_arg, fn_res>>

\* after the loop: write the manifest, return 0 (125-127)
RunFinish ==
    /\ pc = "loop"
    /\ i >= Len(image_descs)
    /\ LET pathfile == ManifestPath(args.output_pathfile, args.output_dir)
       IN  \E opened \in BOOLEAN :
             /\ pathfiles' = writeOutputPathfile(pathfiles, pathfile, output_paths, opened)
             /\ events' = Append(events, [ev |-> "writeOutputPathfile", path |-> pathfile,
                                          lines |-> output_paths, opened |-> opened])
             /\ cout' = Append(cout, [msg |-> "Add border to", count |-> Len(output_paths),
                                      path |-> pathfile])
    /\ run_ret' = <<0>>
    /\ pc' = "returned"
    /\ UNCHANGED <<vm, image_descs, args, i, output_paths, dirs, disk, progress, cerr,
                   exit_status, pathfiles0, fn_arg, fn_res>>

Next ==
    \/ MainHelp
    \/ MainUsage
    \/ MainRun
    \/ RunStart
    \/ RunIterate
    \/ RunFinish
    \/ MainReturn

Spec == Init /\ [][Next]_vars

(***************************************************************************)
(* Specifications of the pure functions: the argument is drawn in the      *)
(* initial state and the function is applied once.                         *)
(***************************************************************************)
Idle ==
    /\ pc = "idle"
    /\ vm = None
    /\ image_descs = <<>>
    /\ args = None
    /\ i = 0
    /\ output_paths = <<>>
    /\ dirs = {}
    /\ disk = EmptyFn
    /\ pathfiles = EmptyFn
    /\ pathfiles0 = EmptyFn
    /\ progress = <<>>
    /\ cerr = <<>>
    /\ cout = <<>>
    /\ events = <<>>
    /\ run_ret = <<>>
    /\ exit_status = <<>>

IdleVars == <<pc, vm, image_descs, args, i, output_paths, dirs, disk, pathfiles,
              pathfiles0, progress, cerr, cout, events, run_ret, exit_status>>

\* 8-bit samples: the two extremes and a value between them
Samples == {0, 128, 255}

Mats ==
    UNION { { [rows |-> r, cols |-> c, data |-> [op |-> "px", px |-> f], stages |-> <<>>] :
                f \in [Coords(r, c) -> Samples] } :
            r \in 1..MaxRows, c \in 1..MaxCols }

InitBorder ==
    /\ Idle
    /\ fn_arg \in Mats
    /\ fn_res = <<>>

ApplyMakeBorder ==
    /\ pc = "idle"
    /\ fn_res = <<>>
    /\ fn_res' = <<makeBorder(fn_arg)>>
    /\ UNCHANGED <<IdleVars, fn_arg>>

NextBorder == ApplyMakeBorder

SpecBorder == InitBorder /\ [][NextBorder]_vars

\* the threshold stage: buffers of one sample with every 8-bit value, and
\* buffers of two samples; the mask of cv::adaptiveThreshold is any buffer
\* of the same size with samples 0 or 255
ThresholdShapes == { <<1, 1>>, <<1, 2>>, <<2, 1>> }

ThresholdSamples(shape) == IF shape = <<1, 1>> THEN 0..255 ELSE {0, 15, 255}

PxMat(shape, f) ==
    [rows |-> shape[1], cols |-> shape[2], data |-> [op |-> "px", px |-> f]]

ThresholdInputs ==
    UNION { { [mat |-> PxMat(shape, f), mat_threshold |-> PxMat(shape, g),
               use_binary_image |-> b] :
                f \in [Coords(shape[1], shape[2]) -> ThresholdSamples(shape)],
                g \in [Coords(shape[1], shape[2]) -> {0, 255}],
                b \in BOOLEAN } :
            shape \in ThresholdShapes }

InitThreshold ==
    /\ Idle
    /\ fn_arg \in ThresholdInputs
    /\ fn_res = <<>>

ApplyThreshold ==
    /\ pc = "idle"
    /\ fn_res = <<>>
    /\ fn_res' = <<thresholdOutput(fn_arg.mat, fn_arg.mat_threshold,
                                   fn_arg.use_binary_image)>>
    /\ UNCHANGED <<IdleVars, fn_arg>>

NextThreshold == ApplyThreshold

SpecThreshold == InitThreshold /\ [][NextThreshold]_vars

PathChars == {"a", ".", "/"}

\* a path that names a file: its last element is not empty, "." or ".."
NamesFile(p) ==
    /\ p # <<>>
    /\ Last(p) # "/"
    /\ path_filename(p) \notin { <<".">>, <<".", ".">> }

InputPaths == {p \in SeqsUpTo(PathChars, MaxPathLen) : NamesFile(p)}

OutputDirs == { <<"o">>, <<"o", "/">>, <<"o", ".", "d">>, <<"x", "/", "o">> }

InitPath ==
    /\ Idle
    /\ fn_arg \in [output_dir : OutputDirs, filename : InputPaths]
    /\ fn_res = <<>>

ApplyOutputPath ==
    /\ pc = "idle"
    /\ fn_res = <<>>
    /\ fn_res' = <<OutputPath(fn_arg.output_dir, fn_arg.filename)>>
    /\ UNCHANGED <<IdleVars, fn_arg>>

NextPath == ApplyOutputPath

SpecPath == InitPath /\ [][NextPath]_vars

(***************************************************************************)
(* Properties of the orchestrator (specification Spec).                    *)
(***************************************************************************)
EventsOf(kind) == SelectSeq(events, LAMBDA e : e.ev = kind)

Writes == EventsOf("write")
ManifestWrites == EventsOf("writeOutputPathfile")

FailedWrites == SelectSeq(Writes, LAMBDA e : ~e.ok)
GoodWrites == SelectSeq(Writes, LAMBDA e : e.ok)

WriteFailed == FailedWrites # <<>>

N == Len(image_descs)

\* C1: a batch with a failed image write makes the process exit with status 1
\* and report the failing path; a batch whose writes all succeed makes it
\* exit with status 0.
C1_ExitStatusReflectsFailure ==
    (pc = "exit" /\ run_ret # <<>>) =>
        /\ WriteFailed =>
              /\ exit_status = <<1>>
              /\ \E k \in 1..Len(cerr) : cerr[k].path = FailedWrites[1].path
        /\ ~WriteFailed => exit_status = <<0>>

\* C2: the manifest is written at most once, only after every descriptor's
\* image was written, and never in a run that had a failed write; the
\* manifest files change only through that one write.
C2_ManifestOnlyAfterFullSuccess ==
    /\ Len(ManifestWrites) <= 1
    /\ ManifestWrites # <<>> => (~WriteFailed /\ Len(GoodWrites) = N)
    /\ pathfiles # pathfiles0 => (ManifestWrites # <<>> /\ ~WriteFailed)

C2_Witness ==
    /\ pc = "exit"
    /\ N = 2
    /\ Len(ManifestWrites) = 1
    /\ ManifestWrites[1].opened
    /\ pathfiles # pathfiles0

\* C3: when a batch of n descriptors completes, the manifest handed to the
\* manifest file has n lines, line k being the output path of descriptor k,
\* and the images were written one per descriptor in input order.
C3_ManifestInInputOrder ==
    run_ret = <<0>> =>
        LET m == ManifestWrites[1]
        IN  /\ Len(m.lines) = N
            /\ \A k \in 1..N : m.lines[k] = OutputPath(OutputDir, image_descs[k])
            /\ m.opened => pathfiles[m.path] = m.lines
            /\ Len(Writes) = N
            /\ \A k \in 1..N : Writes[k].i = k - 1 /\ Writes[k].ok
                                /\ Writes[k].path = m.lines[k]

C3_Witness ==
    /\ run_ret = <<0>>
    /\ N = 3
    /\ image_descs[1] # image_descs[2]
    /\ OutputPath(OutputDir, image_descs[2]) # OutputPath(OutputDir, image_descs[3])
    /\ ManifestWrites[1].opened

\* C4: a failed write makes run return 1 at once, and from then on nothing
\* is decoded, processed, written, retried, reported as progress or stored.
C4_FailFast ==
    /\ [](WriteFailed => (run_ret = <<1>> /\ pc \in {"returned", "exit"}))
    /\ [][run_ret = <<1>> =>
            /\ run_ret' = <<1>>
            /\ events' = events
            /\ progress' = progress
            /\ disk' = disk
            /\ pathfiles' = pathfiles
            /\ output_paths' = output_paths
            /\ i' = i
            /\ cerr' = cerr]_vars

C4_Witness ==
    /\ pc = "exit"
    /\ run_ret = <<1>>
    /\ N = 3
    /\ i = 1
    /\ Len(Writes) = 2

\* C5: when the write for descriptor f fails, the files written for the
\* descriptors before f are on disk, no file written for descriptor f or a
\* later one exists, and the manifest files are as they were at the start.
C5_PartialOutputsNoManifest ==
    WriteFailed =>
        LET f == FailedWrites[1].i
        IN  /\ \A k \in 1..f : OutputPath(OutputDir, image_descs[k]) \in DOMAIN disk
            /\ \A p \in DOMAIN disk : disk[p].desc < f
            /\ pathfiles = pathfiles0

C5_Witness ==
    /\ pc = "exit"
    /\ WriteFailed
    /\ FailedWrites[1].i = 1
    /\ N = 3
    /\ DOMAIN disk # {}
    /\ pathfiles0 # EmptyFn

StageNames(stages) == [k \in 1..Len(stages) |-> stages[k].stage]

Processed == EventsOf("processImage")

\* C6: the threshold stage runs on an image iff use-threshold or
\* binary-image was given; binary-image alone is enough.
C6_BinaryForcesThreshold ==
    \A k \in 1..Len(Processed) :
        (\E j \in 1..Len(Processed[k].stages) :
              Processed[k].stages[j].stage = "adaptiveTresholding")
          <=> (vm.use_threshold \/ vm.binary_image)

C6_Witness ==
    /\ vm.binary_image
    /\ ~vm.use_threshold
    /\ Len(Processed) = 2
    /\ \A k \in 1..2 : \E j \in 1..Len(Processed[k].stages) :
            Processed[k].stages[j].stage = "adaptiveTresholding"

StageOrder == <<"makeBorder", "localHistogramEq", "adaptiveTresholding">>

StageEnabled(name) ==
    \/ name = "makeBorder" /\ args.border
    \/ name = "localHistogramEq" /\ args.use_hist_eq
    \/ name = "adaptiveTresholding" /\ args.use_thresholding

\* C7: every image gets exactly the enabled stages, each once, in the order
\* border, contrast normalization, threshold; the border stage sees the
\* decoded buffer and the later stages see the padded one when the border
\* is enabled; the file written holds the buffer after all these stages.
C7_StagesInFixedOrder ==
    \A k \in 1..Len(Processed) :
        LET e   == Processed[k]
            src == Decode(image_descs[e.i + 1])
            padded == IF args.border
                      THEN <<src.rows + 2 * (TAG_HEIGHT \div 2),
                             src.cols + 2 * (TAG_WIDTH \div 2)>>
                      ELSE <<src.rows, src.cols>>
        IN  /\ StageNames(e.stages) = SelectSeq(StageOrder, StageEnabled)
            /\ \A j \in 1..Len(e.stages) :
                  <<e.stages[j].rows, e.stages[j].cols>> =
                      IF e.stages[j].stage = "makeBorder"
                      THEN <<src.rows, src.cols>> ELSE padded
            /\ Writes[k].i = e.i
            /\ \A j \in 1..Len(events) :
                  (events[j].ev = "write" /\ events[j].i = e.i) =>
                      (events[j - 1].ev = "processImage" /\ events[j - 1].i = e.i)
            /\ (Writes[k].ok /\ \A j \in (k + 1)..Len(Writes) :
                                    ~(Writes[j].ok /\ Writes[j].path = Writes[k].path)) =>
                  /\ disk[Writes[k].path].desc = e.i
                  /\ disk[Writes[k].path].mat.stages = e.stages

C7_Witness ==
    /\ Len(Processed) = 2
    /\ StageNames(Processed[2].stages) = StageOrder
    /\ Writes[2].ok
    /\ Processed[2].stages[2].rows = Decode(image_descs[2]).rows + TAG_HEIGHT

(***************************************************************************)
(* Properties of makeBorder (specification SpecBorder).                    *)
(***************************************************************************)
Clamp(x, lo, hi) == Max(lo, Min(x, hi))

\* C8: padding a rows x cols buffer gives (rows + TAG_HEIGHT) x
\* (cols + TAG_WIDTH): TAG_HEIGHT/2 rows above and below, TAG_WIDTH/2
\* columns to the left and right (integer halving).
C8_BorderSize ==
    fn_res # <<>> =>
        LET src == fn_arg
            dst == fn_res[1]
        IN  /\ dst.rows = src.rows + TAG_HEIGHT
            /\ dst.cols = src.cols + TAG_WIDTH
            /\ dst.rows = (TAG_HEIGHT \div 2) + src.rows + (TAG_HEIGHT \div 2)
            /\ dst.cols = (TAG_WIDTH \div 2) + src.cols + (TAG_WIDTH \div 2)
            /\ DOMAIN dst.data.px = Coords(dst.rows, dst.cols)

C8_Witness ==
    /\ fn_res # <<>>
    /\ fn_arg.rows = 1
    /\ fn_arg.cols = 2
    /\ fn_res[1].rows = 1 + TAG_HEIGHT
    /\ fn_res[1].cols = 2 + TAG_WIDTH

\* C9: after padding, the source sample (r, c) is at (r + TAG_HEIGHT/2,
\* c + TAG_WIDTH/2) and every sample of the result equals the source sample
\* at its own coordinates clamped into the source buffer.
C9_EdgeReplication ==
    fn_res # <<>> =>
        LET src == fn_arg
            dst == fn_res[1]
            top == TAG_HEIGHT \div 2
            left == TAG_WIDTH \div 2
        IN  /\ \A p \in Coords(src.rows, src.cols) :
                  dst.data.px[<<p[1] + top, p[2] + left>>] = src.data.px[p]
            /\ \A q \in DOMAIN dst.data.px :
                  dst.data.px[q] = src.data.px[<<Clamp(q[1] - top, 0, src.rows - 1),
                                                 Clamp(q[2] - left, 0, src.cols - 1)>>]

C9_Witness ==
    /\ fn_res # <<>>
    /\ fn_arg.rows = 2
    /\ fn_arg.cols = 2
    /\ fn_arg.data.px = [p \in Coords(2, 2) |->
                            IF p = <<0, 0>> THEN 0 ELSE IF p = <<1, 1>> THEN 0
                            ELSE IF p = <<0, 1>> THEN 128 ELSE 255]
    /\ fn_res[1].data.px[<<0, 0>>] = 0
    /\ fn_res[1].data.px[<<0, 1 + TAG_WIDTH>>] = 128
    /\ fn_res[1].data.px[<<1 + TAG_HEIGHT, 0>>] = 255

(***************************************************************************)
(* Properties of the output path (specification SpecPath).                 *)
(***************************************************************************)
\* the part of a path after its last slash
AfterLastSlash(p) ==
    LET cut == {k \in 0..Len(p) : (k = 0 \/ p[k] = "/") /\ \A j \in (k + 1)..Len(p) : p[j] # "/"}
    IN  SubSeq(p, (CHOOSE k \in cut : TRUE) + 1, Len(p))

HasDot(q) == \E k \in 1..Len(q) : q[k] = "."

\* q is name's extension: empty when name has no dot, else the suffix that
\* starts at name's last dot
IsExtensionOf(ext, stem, name) ==
    /\ name = stem \o ext
    /\ IF HasDot(name) THEN ext # <<>> /\ ext[1] = "." /\ ~HasDot(Tail(ext))
       ELSE ext = <<>>

\* C10: the output path is output_dir / (stem + "_wb" + extension) of the
\* input's file name: the input's directories are dropped, only the last
\* extension is split off, a name without extension gets "_wb" appended, and
\* the extension is kept as it is.
C10_OutputPathShape ==
    fn_res # <<>> =>
        LET name == AfterLastSlash(fn_arg.filename)
            dir  == IF Last(fn_arg.output_dir) = "/" THEN fn_arg.output_dir
                    ELSE Append(fn_arg.output_dir, "/")
        IN  \E k \in 0..Len(name) :
              LET stem == SubSeq(name, 1, k)
                  ext  == SubSeq(name, k + 1, Len(name))
              IN  /\ IsExtensionOf(ext, stem, name)
                  /\ fn_res[1] = dir \o stem \o <<"_", "w", "b">> \o ext

C10_Witness ==
    /\ fn_res # <<>>
    /\ fn_arg.filename = <<"a", "/", "a", ".">>
    /\ fn_arg.output_dir = <<"o", ".", "d">>
    /\ fn_res[1] = <<"o", ".", "d", "/", "a", "_", "w", "b", ".">>


(***************************************************************************)
(* Files left by a completed batch (specification Spec).                   *)
(***************************************************************************)
PairwiseDifferent(s) == \A j, k \in 1..Len(s) : j # k => s[j] # s[k]

\* C11: a completed batch of n (pairwise different) descriptors leaves n
\* image files, one per descriptor: no file written for a descriptor is
\* overwritten by a later descriptor of the batch, and the file each
\* manifest line names holds the result of the line's own descriptor.
C11_OneFilePerDescriptor ==
    (run_ret = <<0>> /\ PairwiseDifferent(image_descs)) =>
        /\ Cardinality(DOMAIN disk) = N
        /\ \A k \in 1..N : /\ output_paths[k] \in DOMAIN disk
                           /\ disk[output_paths[k]].desc = k - 1


(***************************************************************************)
(* Properties of the threshold stage (specification SpecThreshold).        *)
(***************************************************************************)
Abs(x) == IF x < 0 THEN 0 - x ELSE x

\* v is an integer nearest to num / 10
NearestToTenths(v, num) == 2 * Abs(10 * v - num) <= 10

\* C12: for a source buffer and its mask (samples 0 or 255): with
\* binaryOutput the output equals the mask at every sample; without it
\* every output sample is 0.7 * source + 0.3 * mask rounded to the nearest
\* integer and lies in 0..255; in both modes the output has the size of
\* the input.
C12_MaskOrBlend ==
    fn_res # <<>> =>
        LET src  == fn_arg.mat
            mask == fn_arg.mat_threshold
            out  == fn_res[1]
        IN  /\ out.rows = src.rows
            /\ out.cols = src.cols
            /\ DOMAIN out.data.px = Coords(src.rows, src.cols)
            /\ \A p \in Coords(src.rows, src.cols) :
                  IF fn_arg.use_binary_image
                  THEN out.data.px[p] = mask.data.px[p]
                  ELSE /\ out.data.px[p] \in 0..255
                       /\ NearestToTenths(out.data.px[p],
                                          7 * src.data.px[p] + 3 * mask.data.px[p])

C12_Witness ==
    /\ fn_res # <<>>
    /\ ~fn_arg.use_binary_image
    /\ fn_arg.mat.rows = 1
    /\ fn_arg.mat.cols = 2
    /\ fn_arg.mat.data.px = [p \in Coords(1, 2) |-> IF p[2] = 0 THEN 15 ELSE 255]
    /\ fn_arg.mat_threshold.data.px = [p \in Coords(1, 2) |-> IF p[2] = 0 THEN 0 ELSE 255]
    /\ fn_res[1].data.px[<<0, 0>>] = 10
    /\ fn_res[1].data.px[<<0, 1>>] = 255


(***************************************************************************)
(* The manifest file (specification Spec).                                 *)
(***************************************************************************)
DefaultLocation == <<"o", "/", "i", "m", "a", "g", "e", "s", ".", "t", "x", "t">>
OverrideLocation == <<"m">>

\* the manifest locations whose file is not as it was when the process started
ChangedLocations ==
    {p \in {DefaultLocation, OverrideLocation} :
        \/ (p \in DOMAIN pathfiles) # (p \in DOMAIN pathfiles0)
        \/ p \in DOMAIN pathfiles /\ p \in DOMAIN pathfiles0 /\ pathfiles[p] # pathfiles0[p]}

\* C14: the manifest is written to the override path when --output-pathfile
\* is given and to output_dir/images.txt otherwise; the other location is
\* never written, and the target holds the lines once its stream is open.
C14_ManifestLocation ==
    /\ ManifestWrites = <<>> => ChangedLocations = {}
    /\ ManifestWrites # <<>> =>
          LET e      == ManifestWrites[1]
              target == IF vm.output_pathfile = <<>> THEN DefaultLocation
                        ELSE OverrideLocation
          IN  /\ e.path = target
              /\ ChangedLocations \subseteq {target}
              /\ e.opened => (ChangedLocations = {target} /\ pathfiles[target] = e.lines)

C14_Witness ==
    /\ run_ret = <<0>>
    /\ vm.output_pathfile = <<OverrideLocation>>
    /\ N = 2
    /\ ManifestWrites[1].opened
    /\ pathfiles[OverrideLocation] = output_paths
    /\ DefaultLocation \notin DOMAIN pathfiles


(***************************************************************************)
(* Progress reports (specification Spec).                                  *)
(***************************************************************************)
\* the fraction a is smaller than the fraction b
FracLess(a, b) == a[1] * b[2] < b[1] * a[2]

RunStarted == pc \in {"loop", "returned"} \/ (pc = "exit" /\ run_ret # <<>>)

\* C15: progress 0 is reported when the batch starts, after the output
\* directory is created and before any image is decoded; (i+1)/total is
\* reported after the successful write of descriptor i and the append of
\* its path; the reported values increase strictly, there is always one
\* report more than paths in the accumulator, and the value 1 is reported
\* iff every descriptor of a non-empty batch was written.
C15_ProgressReports ==
    /\ ~RunStarted => (progress = <<>> /\ events = <<>>)
    /\ RunStarted =>
          /\ events[1].ev = "create_directories"
          /\ args.output_dir \in dirs
          /\ progress # <<>>
          /\ progress[1] = <<0, 1>>
          /\ Len(progress) = 1 + Len(output_paths)
          /\ Len(progress) = 1 + Len(GoodWrites)
          /\ \A k \in 2..Len(progress) :
                /\ progress[k] = <<GoodWrites[k - 1].i + 1, N>>
                /\ output_paths[k - 1] = GoodWrites[k - 1].path
          /\ \A k \in 1..(Len(progress) - 1) : FracLess(progress[k], progress[k + 1])
          /\ \A k \in 1..Len(progress) : progress[k][2] > 0
          /\ (\E k \in 1..Len(progress) : progress[k][1] = progress[k][2])
                <=> (N >= 1 /\ i = N /\ ~WriteFailed)

C15_Witness ==
    /\ pc = "exit"
    /\ N = 3
    /\ progress = << <<0, 1>>, <<1, 3>>, <<2, 3>>, <<3, 3>> >>
    /\ Len(output_paths) = 3


(***************************************************************************)
(* Missing configuration (specification Spec).                             *)
(***************************************************************************)
\* C16: without a pathfile or without an output directory the program only
\* prints the usage message: no directory is created, no image is decoded
\* or written, no manifest is written, and the exit status is 0.
C16_UsageOnly ==
    ~(vm.pathfile /\ vm.output_dir) =>
        /\ pc \in {"main", "exit"}
        /\ dirs = {}
        /\ disk = EmptyFn
        /\ events = <<>>
        /\ progress = <<>>
        /\ image_descs = <<>>
        /\ pathfiles = pathfiles0
        /\ run_ret = <<>>
        /\ pc = "exit" => (exit_status = <<0>> /\ cout # <<>> /\ cout[Len(cout)] = "usage")

C16_Witness ==
    /\ pc = "exit"
    /\ ~vm.help
    /\ vm.pathfile
    /\ ~vm.output_dir
    /\ cout = <<"No pathfile or output_dir are given", "usage">>
    /\ exit_status = <<0>>


(***************************************************************************)
(* Size of the written images (specification Spec).                        *)
(***************************************************************************)
\* C17: contrast normalization and thresholding leave the size of the
\* buffer alone, so a written image is (H + TAG_HEIGHT) x (W + TAG_WIDTH)
\* with the border and H x W without it, whatever the other three flags.
C17_WrittenSize ==
    \A p \in DOMAIN disk :
        LET file == disk[p]
            src  == Decode(image_descs[file.desc + 1])
        IN  /\ file.mat.rows = src.rows + (IF vm.border THEN TAG_HEIGHT ELSE 0)
            /\ file.mat.cols = src.cols + (IF vm.border THEN TAG_WIDTH ELSE 0)
            /\ \A j \in 1..Len(file.mat.stages) :
                  file.mat.stages[j].stage # "makeBorder" =>
                      /\ file.mat.stages[j].rows = file.mat.rows
                      /\ file.mat.stages[j].cols = file.mat.cols

C17_Witness ==
    /\ vm.border /\ vm.use_hist_eq /\ vm.binary_image
    /\ N = 1
    /\ image_descs[1] = <<"a", ".", "p">>
    /\ DOMAIN disk # {}
    /\ \A p \in DOMAIN disk : /\ disk[p].mat.rows = 1 + TAG_HEIGHT
                              /\ disk[p].mat.cols = 2 + TAG_WIDTH
                              /\ Len(disk[p].mat.stages) = 3


(***************************************************************************)
(* Persistence of the manifest and the empty batch (specification Spec).   *)
(***************************************************************************)
\* C18: run returns 0 only when the manifest file has been persisted with
\* all n output paths: no run reports success while the manifest file is
\* missing or incomplete.
C18_SuccessMeansPersisted ==
    run_ret = <<0>> =>
        LET target == ManifestWrites[1].path
        IN  /\ target \in DOMAIN pathfiles
            /\ Len(pathfiles[target]) = N
            /\ pathfiles[target] = output_paths

\* C19: for an empty descriptor list run goes from its start straight to
\* the manifest: the output directory is created, progress is reported once
\* (0) and never with a zero total, nothing is decoded or written, a
\* manifest of zero lines is written to the target path, and run returns 0.
C19_EmptyBatch ==
    /\ \A k \in 1..Len(progress) : progress[k][2] # 0
    /\ (RunStarted /\ N = 0) =>
          /\ dirs = {OutputDir}
          /\ progress = << <<0, 1>> >>
          /\ EventsOf("decode") = <<>>
          /\ Processed = <<>>
          /\ Writes = <<>>
          /\ disk = EmptyFn
          /\ output_paths = <<>>
          /\ cerr = <<>>
          /\ pc # "loop" =>
                /\ run_ret = <<0>>
                /\ Len(events) = 2
                /\ Len(ManifestWrites) = 1
                /\ ManifestWrites[1].lines = <<>>
                /\ ManifestWrites[1].path =
                      (IF vm.output_pathfile = <<>> THEN DefaultLocation
                       ELSE OverrideLocation)
                /\ ManifestWrites[1].opened =>
                      pathfiles[ManifestWrites[1].path] = <<>>

C19_Witness ==
    /\ pc = "exit"
    /\ run_ret = <<0>>
    /\ N = 0
    /\ pathfiles0 # EmptyFn
    /\ ManifestWrites[1].opened
    /\ pathfiles[ManifestWrites[1].path] = <<>>
    /\ progress = << <<0, 1>> >>

====
